---- MODULE Spec2Model ----
(***************************************************************************)
(* Resumable keyed collection of dfw_demographic_evolution.                *)
(*                                                                         *)
(* CountyBasedDataCollector (src/collect_data.py): collect_data_for_places *)
(* walks places x years, skips the keys it finds in the CSV store, asks    *)
(* the Census API for the others through get_demographic_data (at most     *)
(* max_retries attempts, exponential back-off) and rewrites the whole      *)
(* store after every successful fetch.                                     *)
(*                                                                         *)
(* IncrementalDataCollector (src/incremental_collector.py) and             *)
(* ExpandedCityCollector (src/expanded_city_collector.py) are modelled     *)
(* further down, each with a specification of its own over the same        *)
(* variables: store, pc, runs, years, all_data, i, j and requests are then *)
(* the file, the position and the locals of the collector that runs.       *)
(* get_all_places_in_counties and backfill_missing_data, the two steps     *)
(* run_collection takes before the collection, have a specification each   *)
(* (SpecPlaces, SpecBackfill); SpecRow reads one provider row.             *)
(*                                                                         *)
(* Text is modelled as a sequence of decimal digits.  A place identifier   *)
(* in memory is a Python int, [int |-> n], or a Python str, [str |-> s]    *)
(* (get_demographic_data takes both); a cell of the CSV store is text.     *)
(***************************************************************************)
EXTENDS Integers, Sequences, FiniteSets, TLC

VARIABLES
    store,           \* rows of the collector's CSV file (absent = no row)
    pc,              \* position of the process
    runs,            \* number of runs started so far
    places,          \* argument of collect_data_for_places
    years,           \* argument of collect_data_for_places
    existing_data,   \* records read from the store at the start of the run
    existing_keys,   \* keys already present
    all_data,        \* existing_data followed by the records fetched in this run
    completed,       \* counter shown in the collection plan
    failed_records,  \* (place name, year) of the items that returned no data
    i,               \* index of the current place (outer loop)
    j,               \* index of the current year (inner loop)
    attempt,         \* loop variable of get_demographic_data
    data,            \* record returned by get_demographic_data, not yet appended
    outcomes,        \* provider answers received by the current call, in order
    requests,        \* provider keys requested in this run, in order of first request
    lastEvent,       \* "none", "request" or "sleep": the last network or timer event
    allOk,           \* every provider answer of this run so far was a well-formed payload
    ended,           \* summary of the run that ended last
    prev,            \* summary of the run that ended before the current one started
    report,          \* what the run printed when it ended
    backoffs,        \* the back-off sleeps of the current call: attempt and wait_time
    timeouts,        \* the request timeouts of the current call: attempt and timeout
    target_cities,          \* IncrementalDataCollector: the cities to collect, in order
    existing_combinations,  \* IncrementalDataCollector: the (city, year) pairs present
    missing_years,          \* IncrementalDataCollector: the years to fetch for the city
    city_data_added,        \* IncrementalDataCollector: records appended for the city
    unsaved,                \* (city, year) appended to all_data and not yet saved
    savedLater,             \* (city, year) saved by runs that had loaded a non-empty store
    start_time,             \* IncrementalDataCollector: the attribute main sets, or "unset"
    row,             \* get_demographic_data: the data row of a status-200 payload
    result,          \* get_demographic_data: what the call makes of the row
    df,              \* get_all_places_in_counties: the rows of the Texas places file
    counties,        \* self.counties.keys(): the configured counties, in order
    target_places,   \* get_all_places_in_counties: the list being built
    county_idx,      \* get_all_places_in_counties: index of the county being processed
    place_idx,       \* get_all_places_in_counties: index into county_places
    output_file,     \* backfill_missing_data: the CSV file with its coordinate columns
    coordinates_lookup,  \* self.coordinates_lookup: place_fips -> coordinates
    file_before      \* the CSV file as it was when backfill_missing_data was called

\* the variables of the other collectors, which collect_data.py leaves alone
\* the variables of get_all_places_in_counties and backfill_missing_data
helperVars == << df, counties, target_places, county_idx, place_idx, output_file,
                 coordinates_lookup, file_before >>

otherVars == << target_cities, existing_combinations, missing_years, city_data_added,
                unsaved, savedLater, start_time, row, result, helperVars >>

\* what is recorded of the requests and sleeps of one call of get_demographic_data
callVars == << backoffs, timeouts >>

vars == << store, pc, runs, places, years, existing_data, existing_keys, all_data,
           completed, failed_records, i, j, attempt, data, outcomes, requests,
           lastEvent, allOk, ended, prev, report, callVars, otherVars >>

----------------------------------------------------------------------------
(* Bounds of the model *)

MaxRuns == 2

MaxIncrementalRuns == 3

\* the numeric fields of a data row that are modelled, of the 16 requested
NumFields == 2

----------------------------------------------------------------------------
(* Program constants *)

max_retries == 3
FipsWidth == 5

----------------------------------------------------------------------------
(* Text and numbers *)

RECURSIVE IntOfStr(_)
\* int(s) for a digit string s
IntOfStr(s) ==
    IF s = <<>> THEN 0 ELSE 10 * IntOfStr(SubSeq(s, 1, Len(s) - 1)) + s[Len(s)]

RECURSIVE StrOfInt(_)
\* str(n) for n >= 0
StrOfInt(n) ==
    IF n < 10 THEN <<n>> ELSE Append(StrOfInt(n \div 10), n % 10)

RECURSIVE zfill(_, _)
\* s.zfill(w)
zfill(s, w) ==
    IF Len(s) >= w THEN s ELSE zfill(<<0>> \o s, w)


PyInt(n) == [int |-> n]

PyStr(s) == [str |-> s]

IsInt(x) == DOMAIN x = {"int"}

\* str(x), also what an f-string and DataFrame.to_csv write for x
py_str(x) == IF IsInt(x) THEN StrOfInt(x.int) ELSE x.str

\* int(x)
py_int(x) == IF IsInt(x) THEN x.int ELSE IntOfStr(x.str)

----------------------------------------------------------------------------
(* Inputs: places, years, provider answers *)

\* Dallas as get_all_places_in_counties yields it (PLACEFP read by pandas as an int),
\* Arlington as the 5-character code the other collectors of the repository use.
PlaceUniverse ==
    { [name |-> "Arlington", place_fips |-> PyStr(<<0, 4, 0, 0, 0>>)],
      [name |-> "Dallas", place_fips |-> PyInt(19000)] }

FirstYear == 2009

YearUniverse == {2009, 2010}

Range(f) == { f[k] : k \in DOMAIN f }

SeqsUpTo(S, n) == UNION { [1..k -> S] : k \in 1..n }

Injective(f) == \A a, b \in DOMAIN f : f[a] = f[b] => a = b

\* place lists without two entries for the same place, as get_all_places_in_counties
\* builds them
PlaceLists ==
    { ps \in SeqsUpTo(PlaceUniverse, Cardinality(PlaceUniverse)) :
        Injective([k \in DOMAIN ps |-> py_int(ps[k].place_fips)]) }

\* year lists list(range(2009, n))
YearLists ==
    { ys \in SeqsUpTo(YearUniverse, Cardinality(YearUniverse)) :
        \A k \in DOMAIN ys : ys[k] = FirstYear + k - 1 }

\* what collect_data_for_places can be called with: the lists above, or an empty list
PlaceArgs == PlaceLists \cup {<<>>}

YearArgs == YearLists \cup {<<>>}

\* the figure the provider reports; it is revised from one run to the next
Population(run) == 100 * run

\* what one request to the provider can end in, besides status 200 with a data row
\* ("ok"), status 200 without one ("empty") and status 204 ("nodata")
Transient == {"error", "timeout", "exception"}

----------------------------------------------------------------------------
(* The CSV store *)

\* DataFrame(all_data).to_csv: every cell is written as its text
to_csv(records) ==
    [k \in DOMAIN records |->
        [place_fips |-> py_str(records[k].place_fips),
         year |-> records[k].year,
         city |-> records[k].city,
         total_population |-> records[k].total_population]]

\* pd.read_csv(...).to_dict('records'): a column of digit strings is parsed as ints
read_csv(rows) ==
    [k \in DOMAIN rows |->
        [place_fips |-> PyInt(IntOfStr(rows[k].place_fips)),
         year |-> rows[k].year,
         city |-> rows[k].city,
         total_population |-> rows[k].total_population]]

\* key = f"{place_fips}_{year}"
KeyOf(place_fips, year) == <<py_str(place_fips), year>>

\* what identifies a request to the provider: place:{str(place_fips).zfill(5)} and the year
ProviderKey(place_fips, year) == <<zfill(py_str(place_fips), FipsWidth), year>>

\* existing_keys as built from the records loaded
KeysOfRecords(records) ==
    { KeyOf(records[k].place_fips, records[k].year) : k \in DOMAIN records }

----------------------------------------------------------------------------
(* The state after construction: no run yet, the store absent *)

NoData == [place_fips |-> PyInt(0), year |-> 0, city |-> "", total_population |-> 0]

NoRun == [end |-> "none", places |-> <<>>, years |-> <<>>, loaded |-> 0,
          failed |-> <<>>, allOk |-> FALSE]

\* the variables of a process, before collect_data_for_places has run
Fresh ==
    /\ places = <<>>
    /\ years = <<>>
    /\ existing_data = <<>>
    /\ existing_keys = {}
    /\ all_data = <<>>
    /\ completed = 0
    /\ failed_records = <<>>
    /\ i = 1
    /\ j = 1
    /\ attempt = 0
    /\ data = NoData
    /\ outcomes = <<>>
    /\ requests = <<>>
    /\ lastEvent = "none"
    /\ allOk = TRUE
    /\ backoffs = <<>>
    /\ timeouts = <<>>

\* nothing printed yet
NoReport == [run |-> "none"]

\* the variables of the other collectors, before any of them has run
\* no file: Path(output_file).exists() is false
NoFile == [exists |-> FALSE, columns |-> {}, rows |-> <<>>]

\* get_all_places_in_counties and backfill_missing_data have not been called
HelpersIdle ==
    /\ df = <<>>
    /\ counties = <<>>
    /\ target_places = <<>>
    /\ county_idx = 0
    /\ place_idx = 0
    /\ output_file = NoFile
    /\ coordinates_lookup = << >>
    /\ file_before = NoFile

OthersIdle ==
    /\ HelpersIdle
    /\ target_cities = <<>>
    /\ existing_combinations = {}
    /\ missing_years = <<>>
    /\ city_data_added = 0
    /\ unsaved = {}
    /\ savedLater = {}
    /\ start_time = "unset"
    /\ row = <<>>
    /\ result = [status |-> "none", fields |-> <<>>]

Init ==
    /\ store = <<>>
    /\ pc = "idle"
    /\ runs = 0
    /\ Fresh
    /\ ended = NoRun
    /\ prev = NoRun
    /\ report = NoReport
    /\ OthersIdle

----------------------------------------------------------------------------
(* collect_data_for_places *)

InRun == pc \in {"item", "request", "backoff", "fetched", "ratelimit"}

AtItem == pc = "item" /\ i <= Len(places)

place_fips == places[i].place_fips

year == years[j]

key == KeyOf(place_fips, year)

\* Mutant of Advance: the loops nested the other way round, years outer.
Advance_YearsOuter ==
    IF i < Len(places) THEN <<i + 1, j>>
    ELSE IF j < Len(years) THEN <<1, j + 1>>
    ELSE <<Len(places) + 1, 1>>

\* for place in places: for year in years: the position after the current one
Advance == IF j < Len(years) THEN <<i, j + 1>> ELSE <<i + 1, 1>>

\* if key in existing_keys
AlreadyDone == key \in existing_keys

\* the process has ended, or none has started yet
Stopped == pc \in {"idle", "done", "interrupted", "raised_in_plan", "raised_in_report",
                   "no_places", "AttributeError"}

\* A new process starts a run: the store is loaded, existing_keys is rebuilt from it, and
\* the collection plan is printed; min(years) raises ValueError when years is empty.
StartRun(ps, ys) ==
    /\ Stopped
    /\ runs < MaxRuns
    /\ runs' = runs + 1
    /\ places' = ps
    /\ years' = ys
    /\ existing_data' = read_csv(store)
    /\ existing_keys' = KeysOfRecords(read_csv(store))
    /\ all_data' = read_csv(store)
    /\ completed' = Len(read_csv(store))
    /\ failed_records' = <<>>
    /\ i' = 1
    /\ j' = 1
    /\ attempt' = 0
    /\ data' = NoData
    /\ outcomes' = <<>>
    /\ requests' = <<>>
    /\ lastEvent' = "none"
    /\ allOk' = TRUE
    /\ prev' = ended
    /\ pc' = IF ys = <<>> THEN "raised_in_plan" ELSE "item"
    /\ UNCHANGED << store, ended >>
    /\ report' = NoReport
    /\ UNCHANGED otherVars
    /\ backoffs' = <<>>
    /\ timeouts' = <<>>

\* Mutant of Skip: an item found in the store is also listed as failed.
Skip_CountsAsFailed ==
    /\ AtItem
    /\ AlreadyDone
    /\ i' = Advance[1]
    /\ j' = Advance[2]
    /\ failed_records' = Append(failed_records, <<places[i].name, year>>)
    /\ UNCHANGED << store, pc, runs, places, years, existing_data, existing_keys,
                    all_data, completed, attempt, data, outcomes,
                    requests, lastEvent, allOk, ended, prev >>
    /\ UNCHANGED << report, otherVars >>
    /\ UNCHANGED callVars

\* if key in existing_keys: continue
Skip ==
    /\ AtItem
    /\ AlreadyDone
    /\ i' = Advance[1]
    /\ j' = Advance[2]
    /\ UNCHANGED << store, pc, runs, places, years, existing_data, existing_keys,
                    all_data, completed, failed_records, attempt, data, outcomes,
                    requests, lastEvent, allOk, ended, prev >>
    /\ UNCHANGED << report, otherVars >>
    /\ UNCHANGED callVars

\* get_demographic_data is about to call requests.get: at the first attempt for a key
\* that is not in existing_keys, or at a later attempt of the retry loop.
Requesting == (AtItem /\ ~AlreadyDone) \/ pc = "request"

\* timeout = 30 + (attempt * 10)
timeout(n) == 30 + (n * 10)

\* Mutant of wait_time: the attempt is multiplied instead of being the exponent.
wait_time_Product(n) == 2 * n

\* wait_time = 2 ** attempt
wait_time(n) == 2 ^ n

\* how the answer is classified: "ok", "empty", "nodata", or "transient" for the three
\* kinds that are retried after a back-off
Class(outcome) == IF outcome \in Transient THEN "transient" ELSE outcome

\* requests.get(url, params, timeout) answered by `outcome`: the bookkeeping of the
\* request itself
Issue(outcome) ==
    /\ requests' = IF requests # <<>> /\ requests[Len(requests)] = ProviderKey(place_fips, year)
                    THEN requests
                    ELSE Append(requests, ProviderKey(place_fips, year))
    /\ outcomes' = Append(IF pc = "item" THEN <<>> ELSE outcomes, Class(outcome))
    /\ allOk' = (allOk /\ outcome = "ok")
    /\ lastEvent' = "request"
    /\ timeouts' = Append(IF pc = "item" THEN <<>> ELSE timeouts,
                          [attempt |-> attempt, timeout |-> timeout(attempt)])
    /\ UNCHANGED backoffs

\* Mutant of ReturnNone: the failed item is remembered with a placeholder record.
ReturnNone_Placeholder ==
    /\ failed_records' = Append(failed_records, <<places[i].name, year>>)
    /\ pc' = "ratelimit"
    /\ existing_keys' = existing_keys \cup {key}
    /\ all_data' = Append(all_data, [place_fips |-> place_fips, year |-> year,
                                      city |-> places[i].name, total_population |-> 0])
    /\ store' = to_csv(all_data')
    /\ UNCHANGED << attempt, completed >>

\* get_demographic_data returns None; collect_data_for_places takes the else branch
ReturnNone ==
    /\ failed_records' = Append(failed_records, <<places[i].name, year>>)
    /\ pc' = "ratelimit"
    /\ UNCHANGED << attempt, store, existing_keys, all_data, completed >>

\* status 200 with a data row: the record is built and returned
RequestOk ==
    /\ Requesting
    /\ Issue("ok")
    /\ data' = [place_fips |-> place_fips, year |-> year, city |-> places[i].name,
                 total_population |-> Population(runs)]
    /\ pc' = "fetched"
    /\ UNCHANGED << store, runs, places, years, existing_data, existing_keys, all_data,
                    completed, failed_records, i, j, attempt, ended, prev >>
    /\ UNCHANGED << report, otherVars >>

\* status 200 without a data row: neither return nor sleep, the for loop goes on
RequestEmpty ==
    /\ Requesting
    /\ Issue("empty")
    /\ IF attempt < max_retries - 1
       THEN /\ attempt' = attempt + 1
            /\ pc' = "request"
            /\ UNCHANGED << failed_records, store, existing_keys, all_data, completed >>
       ELSE ReturnNone
    /\ UNCHANGED << runs, places, years, existing_data, i, j, data, ended, prev >>
    /\ UNCHANGED << report, otherVars >>

\* status 204: return None at once
RequestNoData ==
    /\ Requesting
    /\ Issue("nodata")
    /\ ReturnNone
    /\ UNCHANGED << runs, places, years, existing_data, i, j, data, ended, prev >>
    /\ UNCHANGED << report, otherVars >>

\* Mutant of RequestFail: the last attempt is taken for one that can still be retried.
RequestFail_OffByOne(outcome) ==
    /\ Requesting
    /\ Issue(outcome)
    /\ IF attempt < max_retries
       THEN /\ pc' = "backoff"
            /\ UNCHANGED << attempt, failed_records, store, existing_keys, all_data,
                            completed >>
       ELSE ReturnNone
    /\ UNCHANGED << runs, places, years, existing_data, i, j, data, ended, prev >>
    /\ UNCHANGED << report, otherVars >>

\* Mutant of RequestFail: the failure of the request leaves the run as an exception.
RequestFail_Propagates(outcome) ==
    /\ Requesting
    /\ Issue(outcome)
    /\ pc' = "raised_in_item"
    /\ UNCHANGED << attempt, failed_records, store, existing_keys, all_data, completed >>
    /\ UNCHANGED << runs, places, years, existing_data, i, j, data, ended, prev >>
    /\ UNCHANGED << report, otherVars >>

\* another status, requests.exceptions.Timeout or any other exception (a connection
\* error, response.json() failing, a row too short, int() of a non-numeric field, all
\* raised inside the try block): back off and
\* retry, or return None at the last attempt
RequestFail(outcome) ==
    /\ Requesting
    /\ Issue(outcome)
    /\ IF attempt < max_retries - 1
       THEN /\ pc' = "backoff"
            /\ UNCHANGED << attempt, failed_records, store, existing_keys, all_data,
                            completed >>
       ELSE ReturnNone
    /\ UNCHANGED << runs, places, years, existing_data, i, j, data, ended, prev >>
    /\ UNCHANGED << report, otherVars >>

\* time.sleep(2 ** attempt); continue
Backoff ==
    /\ pc = "backoff"
    /\ lastEvent' = "sleep"
    /\ backoffs' = Append(backoffs, [attempt |-> attempt, wait_time |-> wait_time(attempt)])
    /\ UNCHANGED timeouts
    /\ attempt' = attempt + 1
    /\ pc' = "request"
    /\ UNCHANGED << store, runs, places, years, existing_data, existing_keys, all_data,
                    completed, failed_records, i, j, data, outcomes, requests,
                    allOk, ended, prev >>
    /\ UNCHANGED << report, otherVars >>

\* if data: the record is appended, its key added, and the whole of all_data written
Save ==
    /\ pc = "fetched"
    /\ all_data' = Append(all_data, data)
    /\ existing_keys' = existing_keys \cup {key}
    /\ completed' = completed + 1
    /\ store' = to_csv(Append(all_data, data))
    /\ data' = NoData
    /\ pc' = "ratelimit"
    /\ UNCHANGED << runs, places, years, existing_data, failed_records, i, j, attempt,
                    outcomes, requests, lastEvent, allOk, ended, prev >>
    /\ UNCHANGED << report, otherVars >>
    /\ UNCHANGED callVars
\* Mutant of RateLimit: the loops do not move on to the next item.
RateLimit_NoAdvance ==
    /\ pc = "ratelimit"
    /\ lastEvent' = "sleep"
    /\ attempt' = 0
    /\ outcomes' = <<>>
    /\ pc' = "item"
    /\ UNCHANGED << store, runs, places, years, existing_data, existing_keys, all_data,
                    completed, failed_records, i, j, data, requests, allOk, ended, prev >>
    /\ UNCHANGED << report, otherVars >>
    /\ backoffs' = <<>>
    /\ timeouts' = <<>>

\* time.sleep(0.1 if self.api_key else 0.5), then the next year or place
RateLimit ==
    /\ pc = "ratelimit"
    /\ lastEvent' = "sleep"
    /\ i' = Advance[1]
    /\ j' = Advance[2]
    /\ attempt' = 0
    /\ outcomes' = <<>>
    /\ pc' = "item"
    /\ UNCHANGED << store, runs, places, years, existing_data, existing_keys, all_data,
                    completed, failed_records, data, requests, allOk, ended, prev >>
    /\ UNCHANGED << report, otherVars >>
    /\ backoffs' = <<>>
    /\ timeouts' = <<>>

\* what is known of a run once it has ended
Summary(end) ==
    [end |-> end, places |-> places, years |-> years, loaded |-> Len(existing_data),
     failed |-> IF end = "done" THEN failed_records ELSE <<>>,
     allOk |-> end = "done" /\ allOk]

total_combinations == Len(places) * Len(years)

\* the final data quality report: the number of records, the success rate, the number
\* of failed records when there are any, and the completeness, each ratio as the pair
\* of its numerator and denominator
FinalReport ==
    LET printed == [run |-> "complete",
                    total_records |-> Len(all_data),
                    success_rate |-> << Len(all_data), total_combinations >>,
                    completeness |-> << Len(all_data), total_combinations >>]
    IN  IF failed_records # <<>>
        THEN printed @@ [failed_records |-> Len(failed_records)]
        ELSE printed

\* both loops are over: the final report
\* with no combination at all the success rate divides by zero, after the number of
\* records was printed
Report ==
    /\ pc = "item"
    /\ i > Len(places)
    /\ IF total_combinations = 0
       THEN /\ pc' = "raised_in_report"
            /\ report' = [run |-> "ZeroDivisionError", total_records |-> Len(all_data)]
            /\ ended' = ended
       ELSE /\ pc' = "done"
            /\ report' = FinalReport
            /\ ended' = Summary("done")
    /\ UNCHANGED << store, runs, places, years, existing_data, existing_keys, all_data,
                    completed, failed_records, i, j, attempt, data, outcomes, requests,
                    lastEvent, allOk, prev >>
    /\ UNCHANGED otherVars
    /\ UNCHANGED callVars

\* run_collection finds no place in the configured counties: it says so and returns
NoPlaces ==
    /\ Stopped
    /\ runs < MaxRuns
    /\ runs' = runs + 1
    /\ pc' = "no_places"
    /\ report' = [run |-> "No places found in configured counties"]
    /\ places' = <<>>
    /\ years' = <<>>
    /\ existing_data' = <<>>
    /\ existing_keys' = {}
    /\ all_data' = <<>>
    /\ completed' = 0
    /\ failed_records' = <<>>
    /\ i' = 1
    /\ j' = 1
    /\ attempt' = 0
    /\ data' = NoData
    /\ outcomes' = <<>>
    /\ requests' = <<>>
    /\ lastEvent' = "none"
    /\ allOk' = TRUE
    /\ UNCHANGED << store, ended, prev, otherVars >>
    /\ backoffs' = <<>>
    /\ timeouts' = <<>>

\* KeyboardInterrupt, caught in main, which prints that the collection was interrupted:
\* the process ends where it is and its memory is gone
Interrupt ==
    /\ InRun
    /\ pc' = "interrupted"
    /\ ended' = Summary("interrupted")
    /\ places' = <<>>
    /\ years' = <<>>
    /\ existing_data' = <<>>
    /\ existing_keys' = {}
    /\ all_data' = <<>>
    /\ completed' = 0
    /\ failed_records' = <<>>
    /\ i' = 1
    /\ j' = 1
    /\ attempt' = 0
    /\ data' = NoData
    /\ outcomes' = <<>>
    /\ requests' = <<>>
    /\ lastEvent' = "none"
    /\ allOk' = TRUE
    /\ UNCHANGED << store, runs, prev >>
    /\ report' = [run |-> "interrupted"]
    /\ UNCHANGED otherVars
    /\ backoffs' = <<>>
    /\ timeouts' = <<>>

Next ==
    \/ \E ps \in PlaceArgs, ys \in YearArgs : StartRun(ps, ys)
    \/ NoPlaces
    \/ Skip
    \/ RequestOk
    \/ RequestEmpty
    \/ RequestNoData
    \/ \E outcome \in Transient : RequestFail(outcome)
    \/ Backoff
    \/ Save
    \/ RateLimit
    \/ Report
    \/ Interrupt

Spec == Init /\ [][Next]_vars

\* every step of a run is taken in the end: a request is answered or times out, a
\* sleep ends
SpecTerminating == Init /\ [][Next]_vars /\ WF_vars(Next)

----------------------------------------------------------------------------
(* IncrementalDataCollector (src/incremental_collector.py)

   collect_data_incrementally loads the (city, year) pairs of its CSV
   file, walks its table of target cities, fetches the years a city lacks and saves
   all_data after each city that gained a record.

   A city name is the text "<base>, Texas" or "<base>": [base |-> b, texas |-> t]. *)

Name(b) == [base |-> b, texas |-> TRUE]

\* name.replace(', Texas', ''), also Series.str.replace(r', Texas$', '', regex=True)
strip_texas(t) == [base |-> t.base, texas |-> FALSE]

\* an empty cell of the CSV file, which pandas reads as NaN and writes as nothing
NaN == [base |-> "", texas |-> FALSE]

\* str(x) of a cell: 'nan' for NaN
cell_str(x) == IF x = NaN THEN [base |-> "nan", texas |-> FALSE] ELSE x

\* an excerpt of the table of get_target_cities, which lists Grapevine and Greenville
\* with the same place_fips; it is sorted by population, largest first
TargetCities ==
    << [name |-> Name("Dallas city"), place_fips |-> PyStr(<<1, 9, 0, 0, 0>>),
        population |-> 1300000],
       [name |-> Name("Grapevine city"), place_fips |-> PyStr(<<3, 0, 6, 9, 2>>),
        population |-> 54000],
       [name |-> Name("Greenville city"), place_fips |-> PyStr(<<3, 0, 6, 9, 2>>),
        population |-> 28000] >>

\* filtered_cities.sort(key=population, reverse=True): the position of each city
SortedByPopulation(cities) ==
    CHOOSE f \in [1..Len(cities) -> Range(cities)] :
        /\ \A a, b \in 1..Len(cities) : a < b => f[a].population > f[b].population
        /\ Range(f) = Range(cities)

get_target_cities == SortedByPopulation(TargetCities)

\* the NAME the provider has for a place_fips: one name per code
Registered(fips) ==
    LET k == CHOOSE n \in DOMAIN TargetCities :
                 /\ TargetCities[n].place_fips = fips
                 /\ \A m \in 1..(n - 1) : TargetCities[m].place_fips # fips
    IN  TargetCities[k].name

\* years = list(range(start_year, end_year + 1)), start_year = 2009
YearsUpTo(end_year) == [k \in 1..(end_year - FirstYear + 1) |-> FirstYear + k - 1]

EndYears == {2009, 2010}

\* save_incremental_data: the rows written for all_data.  The city column is derived
\* from the name only when no record has a city; otherwise a record without one gets
\* an empty cell.
save_incremental_data(records) ==
    LET has_city == \E k \in DOMAIN records : "city" \in DOMAIN records[k]
    IN  [k \in DOMAIN records |->
            [name |-> records[k].name,
             year |-> StrOfInt(records[k].year),
             place_fips |-> py_str(records[k].place_fips),
             city |-> IF ~has_city THEN strip_texas(records[k].name)
                      ELSE IF "city" \in DOMAIN records[k] THEN records[k].city
                      ELSE NaN]]

\* int(row['year']) raises for a row whose year cell is empty
Unloadable(rows) == \E k \in DOMAIN rows : rows[k].year = <<>>

\* the (city, year) that load_existing_data derives from a row of the file
Combination(r) ==
    << IF cell_str(r.city).texas THEN strip_texas(r.city) ELSE cell_str(r.city),
       IntOfStr(r.year) >>

\* load_existing_data: (existing_data, existing_combinations), or ([], set()) when the
\* file is absent or an exception was caught while reading it
load_existing_data(rows) ==
    IF Unloadable(rows)
    THEN << <<>>, {} >>
    ELSE << [k \in DOMAIN rows |->
                [name |-> rows[k].name,
                 year |-> IntOfStr(rows[k].year),
                 place_fips |-> PyInt(IntOfStr(rows[k].place_fips)),
                 city |-> rows[k].city]],
            { Combination(rows[k]) : k \in DOMAIN rows } >>

InIncrementalRun == pc \in {"city", "year"}

city == target_cities[i]

city_clean == strip_texas(city.name)

\* collect_data_incrementally(start_year=2009, end_year): up to the loop over the cities;
\* the collector is either the one main creates, which sets start_time on it, or one
\* created by the constructor alone
StartIncremental(end_year, by_main) ==
    /\ Stopped
    /\ runs < MaxIncrementalRuns
    /\ runs' = runs + 1
    /\ existing_data' = load_existing_data(store)[1]
    /\ all_data' = load_existing_data(store)[1]
    /\ existing_combinations' = load_existing_data(store)[2]
    /\ target_cities' = get_target_cities
    /\ years' = YearsUpTo(end_year)
    /\ completed' = Cardinality(load_existing_data(store)[2])
    /\ i' = 1
    /\ j' = 1
    /\ missing_years' = <<>>
    /\ city_data_added' = 0
    /\ unsaved' = {}
    /\ requests' = <<>>
    /\ pc' = "city"
    /\ UNCHANGED << store, places, existing_keys, failed_records, attempt, data, outcomes,
                    lastEvent, allOk, ended, prev, report, savedLater, row, result >>
    /\ UNCHANGED callVars
    /\ start_time' = IF by_main THEN "set" ELSE "unset"
    /\ UNCHANGED helperVars

\* the years of the run that existing_combinations lacks for the city
MissingYears ==
    SelectSeq(years, LAMBDA y : << city_clean, y >> \notin existing_combinations)

\* the head of the loop over the cities: a complete city is passed over
NextCity ==
    /\ pc = "city"
    /\ i <= Len(target_cities)
    /\ IF MissingYears = <<>>
       THEN /\ i' = i + 1
            /\ UNCHANGED << pc, missing_years >>
       ELSE /\ missing_years' = MissingYears
            /\ pc' = "year"
            /\ UNCHANGED i
    /\ j' = 1
    /\ city_data_added' = 0
    /\ UNCHANGED << store, runs, places, years, existing_data, existing_keys, all_data,
                    completed, failed_records, attempt, data, outcomes, requests,
                    lastEvent, allOk, ended, prev, report, target_cities,
                    existing_combinations, unsaved, savedLater, row, result >>
    /\ UNCHANGED callVars
    /\ UNCHANGED start_time
    /\ UNCHANGED helperVars

\* one year of the city: get_demographic_data, the record appended when there is one,
\* then the rate-limit sleep
FetchYear(ok) ==
    /\ pc = "year"
    /\ j <= Len(missing_years)
    /\ requests' = Append(requests, << city.place_fips.str, missing_years[j] >>)
    /\ IF ok
       THEN /\ all_data' = Append(all_data,
                                  [name |-> Registered(city.place_fips),
                                   year |-> missing_years[j],
                                   place_fips |-> city.place_fips])
            /\ existing_combinations' =
                   existing_combinations \cup {<< city_clean, missing_years[j] >>}
            /\ city_data_added' = city_data_added + 1
            /\ unsaved' = unsaved \cup {<< city_clean, missing_years[j] >>}
       ELSE UNCHANGED << all_data, existing_combinations, city_data_added, unsaved >>
    /\ j' = j + 1
    /\ UNCHANGED << store, pc, runs, places, years, existing_data, existing_keys,
                    completed, failed_records, i, attempt, data, outcomes, lastEvent,
                    allOk, ended, prev, report, target_cities, missing_years,
                    savedLater, row, result >>
    /\ UNCHANGED callVars
    /\ UNCHANGED start_time
    /\ UNCHANGED helperVars

\* after the years of the city: all_data is saved when the city gained a record; the
\* estimate of the time remaining, made from the second city on when there is any
\* progress, reads self.start_time, which raises AttributeError when it was never set
SaveAfterCity ==
    /\ pc = "year"
    /\ j > Len(missing_years)
    /\ IF city_data_added > 0
       THEN /\ store' = save_incremental_data(all_data)
            /\ unsaved' = {}
            /\ savedLater' = IF existing_data # <<>> THEN savedLater \cup unsaved
                             ELSE savedLater
       ELSE UNCHANGED << store, unsaved, savedLater >>
    /\ completed' = Cardinality(existing_combinations)
    /\ IF i > 1 /\ Cardinality(existing_combinations) > 0 /\ start_time = "unset"
       THEN /\ pc' = "AttributeError"
            /\ UNCHANGED i
       ELSE /\ i' = i + 1
            /\ pc' = "city"
    /\ UNCHANGED << runs, places, years, existing_data, existing_keys, all_data,
                    failed_records, j, attempt, data, outcomes, requests, lastEvent,
                    allOk, ended, prev, report, target_cities, existing_combinations,
                    missing_years, city_data_added, row, result >>
    /\ UNCHANGED callVars
    /\ UNCHANGED start_time
    /\ UNCHANGED helperVars

\* after the last city: the final save, when there is any record, and the summary
FinalSave ==
    /\ pc = "city"
    /\ i > Len(target_cities)
    /\ store' = IF all_data # <<>> THEN save_incremental_data(all_data) ELSE store
    /\ pc' = "done"
    /\ UNCHANGED << runs, places, years, existing_data, existing_keys, all_data,
                    completed, failed_records, i, j, attempt, data, outcomes, requests,
                    lastEvent, allOk, ended, prev, report, target_cities,
                    existing_combinations, missing_years, city_data_added, unsaved,
                    savedLater, row, result >>
    /\ UNCHANGED callVars
    /\ UNCHANGED start_time
    /\ UNCHANGED helperVars

\* KeyboardInterrupt, caught in main, which prints that the collection is paused: the
\* process ends where it is, nothing is saved, and its memory is gone
InterruptIncremental ==
    /\ InIncrementalRun
    /\ pc' = "interrupted"
    /\ existing_data' = <<>>
    /\ all_data' = <<>>
    /\ existing_combinations' = {}
    /\ target_cities' = <<>>
    /\ years' = <<>>
    /\ completed' = 0
    /\ i' = 1
    /\ j' = 1
    /\ missing_years' = <<>>
    /\ city_data_added' = 0
    /\ unsaved' = {}
    /\ requests' = <<>>
    /\ UNCHANGED << store, runs, places, existing_keys, failed_records, attempt, data,
                    outcomes, lastEvent, allOk, ended, prev, report, savedLater, row,
                    result >>
    /\ UNCHANGED callVars
    /\ start_time' = "unset"
    /\ UNCHANGED helperVars

NextIncremental ==
    \/ \E end_year \in EndYears, by_main \in BOOLEAN : StartIncremental(end_year, by_main)
    \/ NextCity
    \/ \E ok \in BOOLEAN : FetchYear(ok)
    \/ SaveAfterCity
    \/ FinalSave
    \/ InterruptIncremental

\* the incremental collector, its file absent at first
SpecIncremental == Init /\ [][NextIncremental]_vars

\* a file that cannot be loaded: a good row and a row without a year
MalformedStore ==
    << [name |-> Name("Dallas city"), year |-> <<2, 0, 0, 9>>,
        place_fips |-> <<1, 9, 0, 0, 0>>, city |-> strip_texas(Name("Dallas city"))],
       [name |-> Name("Dallas city"), year |-> <<>>,
        place_fips |-> <<1, 9, 0, 0, 0>>, city |-> strip_texas(Name("Dallas city"))] >>

InitMalformed ==
    /\ store = MalformedStore
    /\ pc = "idle"
    /\ runs = 0
    /\ Fresh
    /\ ended = NoRun
    /\ prev = NoRun
    /\ report = NoReport
    /\ OthersIdle

\* the incremental collector, its file malformed at first
SpecIncrementalMalformed == InitMalformed /\ [][NextIncremental]_vars

----------------------------------------------------------------------------
(* ExpandedCityCollector (src/expanded_city_collector.py)

   collect_expanded_data fetches every (place, year) into all_data and returns the
   frame; main saves it, when it is not empty, to a new file named after the time.
   Here store is the sequence of the files written, each the sequence of its rows. *)

\* what filter_cities_by_radius can return: places within the radius, largest first
ExpandedPlaceLists ==
    { <<>>,
      << [name |-> Name("Dallas city"), place_fips |-> PyStr(<<1, 9, 0, 0, 0>>),
          population |-> 1300000] >>,
      << [name |-> Name("Dallas city"), place_fips |-> PyStr(<<1, 9, 0, 0, 0>>),
          population |-> 1300000],
         [name |-> Name("Fort Worth city"), place_fips |-> PyStr(<<2, 7, 0, 0, 0>>),
          population |-> 925000] >> }

\* df = pd.DataFrame(all_data) with its city column, as save_expanded_data writes it
expanded_rows(records) ==
    [k \in DOMAIN records |->
        [name |-> records[k].name,
         year |-> StrOfInt(records[k].year),
         place_fips |-> py_str(records[k].place_fips),
         city |-> strip_texas(records[k].name)]]

\* collect_expanded_data(start_year=2009, end_year), up to the loop over the places;
\* without a place it returns an empty frame and main reports that no data was collected
StartExpanded(ps, end_year) ==
    /\ Stopped
    /\ runs < MaxRuns
    /\ runs' = runs + 1
    /\ places' = ps
    /\ years' = YearsUpTo(end_year)
    /\ all_data' = <<>>
    /\ i' = 1
    /\ j' = 1
    /\ requests' = <<>>
    /\ pc' = IF ps = <<>> THEN "done" ELSE "fetch"
    /\ UNCHANGED << store, existing_data, existing_keys, completed, failed_records,
                    attempt, data, outcomes, lastEvent, allOk, ended, prev, report,
                    otherVars >>
    /\ UNCHANGED callVars

\* one (place, year): get_demographic_data, the record appended when there is one,
\* then the sleep
FetchExpanded(ok) ==
    /\ pc = "fetch"
    /\ i <= Len(places)
    /\ requests' = Append(requests, << places[i].place_fips.str, years[j] >>)
    /\ all_data' = IF ok
                    THEN Append(all_data, [name |-> places[i].name, year |-> years[j],
                                           place_fips |-> places[i].place_fips])
                    ELSE all_data
    /\ i' = Advance[1]
    /\ j' = Advance[2]
    /\ UNCHANGED << store, pc, runs, places, years, existing_data, existing_keys,
                    completed, failed_records, attempt, data, outcomes, lastEvent,
                    allOk, ended, prev, report, otherVars >>
    /\ UNCHANGED callVars

\* collect_expanded_data returns; main saves the frame to a new file unless it is empty
SaveExpanded ==
    /\ pc = "fetch"
    /\ i > Len(places)
    /\ store' = IF all_data # <<>> THEN Append(store, expanded_rows(all_data)) ELSE store
    /\ pc' = "done"
    /\ UNCHANGED << runs, places, years, existing_data, existing_keys, all_data,
                    completed, failed_records, i, j, attempt, data, outcomes, requests,
                    lastEvent, allOk, ended, prev, report, otherVars >>
    /\ UNCHANGED callVars

\* KeyboardInterrupt, which main does not catch: the process ends and its memory is gone
InterruptExpanded ==
    /\ pc = "fetch"
    /\ pc' = "interrupted"
    /\ places' = <<>>
    /\ years' = <<>>
    /\ all_data' = <<>>
    /\ i' = 1
    /\ j' = 1
    /\ requests' = <<>>
    /\ UNCHANGED << store, runs, existing_data, existing_keys, completed,
                    failed_records, attempt, data, outcomes, lastEvent, allOk, ended,
                    prev, report, otherVars >>
    /\ UNCHANGED callVars

NextExpanded ==
    \/ \E ps \in ExpandedPlaceLists, end_year \in EndYears : StartExpanded(ps, end_year)
    \/ \E ok \in BOOLEAN : FetchExpanded(ok)
    \/ SaveExpanded
    \/ InterruptExpanded

SpecExpanded == Init /\ [][NextExpanded]_vars

----------------------------------------------------------------------------
(* The data row of a status-200 payload, as the two get_demographic_data read it.

   A cell of the row is None or a text, the text a sequence of characters; row holds
   the cells after NAME. *)

None == [none |-> TRUE, text |-> <<>>]

Str(t) == [none |-> FALSE, text |-> t]

DigitChars == << "0", "1", "2", "3", "4", "5", "6", "7", "8", "9" >>

Digits == Range(DigitChars)

DigitValue(c) == CHOOSE n \in 0..9 : DigitChars[n + 1] = c

\* the text can be read as an integer: digits, with or without a sign
IsNumeric(t) ==
    LET d == IF t # <<>> /\ t[1] = "-" THEN Tail(t) ELSE t
    IN  d # <<>> /\ \A k \in DOMAIN d : d[k] \in Digits

RECURSIVE NatOfText(_)
NatOfText(d) ==
    IF d = <<>> THEN 0
    ELSE 10 * NatOfText(SubSeq(d, 1, Len(d) - 1)) + DigitValue(d[Len(d)])

\* int(text), for a numeric text
int(t) == IF t[1] = "-" THEN 0 - NatOfText(Tail(t)) ELSE NatOfText(t)

\* '-666666666', the sentinel CountyBasedDataCollector tests for
Sentinel666 == Str(<< "-", "6", "6", "6", "6", "6", "6", "6", "6", "6" >>)

\* '-999999999', the sentinel IncrementalDataCollector tests for
Sentinel999 == Str(<< "-", "9", "9", "9", "9", "9", "9", "9", "9", "9" >>)

\* the cells a provider row is made of: a count, an empty text, a null, the two
\* sentinels, a text that is not a number
Cells == { Str(<< "4", "2" >>), Str(<<>>), None, Sentinel666, Sentinel999,
           Str(<< "N" >>) }

Rows == UNION { [1..n -> Cells] : n \in 0..NumFields }

\* bool(x) of a cell
truthy(x) == ~x.none /\ x.text # <<>>

NoResult == [status |-> "none", fields |-> <<>>]

\* CountyBasedDataCollector.get_demographic_data: int(row[k]) if row[k] and
\* row[k] != '-666666666' else 0, for every field; row[k] raises IndexError on a short
\* row and int() raises ValueError, both caught by the retry loop
county_result(r) ==
    IF Len(r) < NumFields THEN [status |-> "IndexError", fields |-> <<>>]
    ELSE IF \E k \in 1..NumFields :
                truthy(r[k]) /\ r[k] # Sentinel666 /\ ~IsNumeric(r[k].text)
    THEN [status |-> "ValueError", fields |-> <<>>]
    ELSE [status |-> "ok",
          fields |-> [k \in 1..NumFields |->
                         IF truthy(r[k]) /\ r[k] # Sentinel666
                         THEN PyInt(int(r[k].text)) ELSE PyInt(0)]]

\* IncrementalDataCollector.get_demographic_data: value = row[i] if i < len(row) else
\* None; the value itself unless it is '-999999999', None or '', then 0
incremental_result(r) ==
    [status |-> "ok",
     fields |-> [k \in 1..NumFields |->
                    LET value == IF k <= Len(r) THEN r[k] ELSE None
                    IN  IF value \notin {Sentinel999, None, Str(<<>>)}
                        THEN PyStr(value.text) ELSE PyInt(0)]]

InitRow ==
    /\ row \in Rows
    /\ result = NoResult
    /\ store = <<>>
    /\ pc = "idle"
    /\ runs = 0
    /\ Fresh
    /\ ended = NoRun
    /\ prev = NoRun
    /\ report = NoReport
    /\ target_cities = <<>>
    /\ existing_combinations = {}
    /\ missing_years = <<>>
    /\ city_data_added = 0
    /\ unsaved = {}
    /\ savedLater = {}
    /\ start_time = "unset"
    /\ HelpersIdle

\* the row is read by CountyBasedDataCollector.get_demographic_data
ReadCounty ==
    /\ pc = "idle"
    /\ result' = county_result(row)
    /\ pc' = "county"
    /\ UNCHANGED << store, runs, places, years, existing_data, existing_keys, all_data,
                    completed, failed_records, i, j, attempt, data, outcomes, requests,
                    lastEvent, allOk, ended, prev, report, target_cities,
                    existing_combinations, missing_years, city_data_added, unsaved,
                    savedLater, row >>
    /\ UNCHANGED callVars
    /\ UNCHANGED start_time
    /\ UNCHANGED helperVars

\* the row is read by IncrementalDataCollector.get_demographic_data
ReadIncremental ==
    /\ pc = "idle"
    /\ result' = incremental_result(row)
    /\ pc' = "incremental"
    /\ UNCHANGED << store, runs, places, years, existing_data, existing_keys, all_data,
                    completed, failed_records, i, j, attempt, data, outcomes, requests,
                    lastEvent, allOk, ended, prev, report, target_cities,
                    existing_combinations, missing_years, city_data_added, unsaved,
                    savedLater, row >>
    /\ UNCHANGED callVars
    /\ UNCHANGED start_time
    /\ UNCHANGED helperVars

NextRow == ReadCounty \/ ReadIncremental

SpecRow == InitRow /\ [][NextRow]_vars

----------------------------------------------------------------------------
(* Vocabulary of the properties *)

\* the keys a run finds in the store when it loads it
LoadedKeys == KeysOfRecords(read_csv(store))

\* the provider requests that records stand for
ProviderKeysOf(records) ==
    { ProviderKey(records[k].place_fips, records[k].year) : k \in DOMAIN records }

\* the provider requests of the work-set places x years
WorkKeys ==
    { ProviderKey(places[a].place_fips, years[b]) : a \in DOMAIN places, b \in DOMAIN years }

\* the current run was given the places and years of the run that ended before it
SameWorkSet == prev.places = places /\ prev.years = years

----------------------------------------------------------------------------
(* C1: the store never holds two records with the same (place_fips, year), the key
   of a stored record being the one a run computes when it reloads the store. *)
C1_AtMostOncePerKey ==
    \A a, b \in DOMAIN store :
        LET rows == read_csv(store)
        IN  KeyOf(rows[a].place_fips, rows[a].year) = KeyOf(rows[b].place_fips, rows[b].year)
                => a = b

(* C2: a run that finds in the store the records of a strict subset S of its work-set
   requests exactly the keys of the work-set that are not in S, and the records of S
   are still in the store, unchanged, when it ends. *)
C2_ResumeFetchesExactlyTheRest ==
    ( /\ pc = "done"
      /\ ProviderKeysOf(existing_data) \subseteq WorkKeys
      /\ ProviderKeysOf(existing_data) # WorkKeys
      /\ Cardinality(ProviderKeysOf(existing_data)) = Len(existing_data) )
    => /\ Range(requests) = WorkKeys \ ProviderKeysOf(existing_data)
       /\ Len(store) >= Len(existing_data)
       /\ \A k \in DOMAIN existing_data : read_csv(store)[k] = existing_data[k]

(* C3: a run from an empty store that is halted after its Nth successful fetch leaves
   exactly the N fetched records in the store; the run that resumes it with the same
   places and years requests none of the keys found in the store, and ends with one
   record per fetched key, as a single run does. *)
C3_CrashSafety ==
    /\ (InRun /\ pc # "fetched" /\ existing_data = <<>>) => store = to_csv(all_data)
    /\ (prev.end = "interrupted" /\ prev.loaded = 0 /\ SameWorkSet /\ (InRun \/ pc = "done"))
          => /\ Range(requests) \cap ProviderKeysOf(existing_data) = {}
             /\ Cardinality(ProviderKeysOf(read_csv(store))) = Len(store)

(* C4: two runs in succession with the same places and years, the first from an empty
   store and every provider answer a well-formed payload: the store ends with
   |places| x |years| records and the second run issues no request. *)
C4_Idempotence ==
    ( /\ pc = "done"
      /\ prev.end = "done" /\ prev.loaded = 0 /\ prev.allOk
      /\ SameWorkSet /\ allOk )
    => /\ Len(store) = Len(places) * Len(years)
       /\ requests = <<>>

\* the provider answers of the current call: k transient failures, then whatever follows
TransientPrefix(k) ==
    /\ Len(outcomes) >= k
    /\ \A n \in 1..k : outcomes[n] = "transient"

\* the work item the current call is for
CurrentItem == <<places[i].name, year>>

\* the store row that Save writes for the current item
CurrentRow ==
    [place_fips |-> py_str(place_fips), year |-> year, city |-> places[i].name,
     total_population |-> Population(runs)]

\* no record was added in this run for the current item
NothingStoredForCurrent ==
    /\ ~AlreadyDone
    /\ \A k \in DOMAIN all_data :
          k > Len(existing_data) =>
              ProviderKey(all_data[k].place_fips, all_data[k].year)
                  # ProviderKey(place_fips, year)
    /\ Len(all_data) = Len(existing_data) \/ store = to_csv(all_data)

(* C5: with max_retries = 3, a call whose first k < 3 answers are transient failures
   goes on to another request; when the next answer is a well-formed payload the
   record is returned and then written to the store; after 3 transient failures the
   call has made exactly 3 requests, the item is in failed_records and nothing was
   stored for it. *)
C5_RetryBound ==
    /\ Len(outcomes) <= 3
    /\ \A k \in 0..2 :
          /\ (Len(outcomes) = k /\ TransientPrefix(k) /\ k > 0)
                => pc \in {"backoff", "request"}
          /\ (Len(outcomes) = k + 1 /\ TransientPrefix(k) /\ outcomes[k + 1] = "ok")
                => \/ pc = "fetched" /\ to_csv(<<data>>) = <<CurrentRow>>
                   \/ /\ pc = "ratelimit"
                      /\ store # <<>> /\ store[Len(store)] = CurrentRow
                      /\ store = to_csv(all_data)
                      /\ AlreadyDone
                      /\ CurrentItem \notin Range(failed_records)
    /\ (Len(outcomes) >= 3 /\ TransientPrefix(3))
          => /\ pc = "ratelimit"
             /\ failed_records # <<>>
             /\ failed_records[Len(failed_records)] = CurrentItem
             /\ NothingStoredForCurrent

\* a record was written after two transient failures
C5_Witness ==
    /\ pc = "ratelimit"
    /\ outcomes = <<"transient", "transient", "ok">>
    /\ store # <<>> /\ store[Len(store)] = CurrentRow

(* C6: when the provider answers 204, the call ends without another request, no
   store entry is written, and the key is counted neither as a success nor as a
   failure of the run. *)
C6_NoDataNotCounted ==
    (outcomes # <<>> /\ outcomes[Len(outcomes)] = "nodata")
    => /\ pc = "ratelimit"
       /\ NothingStoredForCurrent
       /\ CurrentItem \notin Range(failed_records)

\* the place of the current run that has this name
PlaceNamed(name) == CHOOSE p \in Range(places) : p.name = name

\* a record was added in this run for the request q
StoredInThisRun(q) ==
    \E k \in DOMAIN all_data :
        /\ k > Len(existing_data)
        /\ ProviderKey(all_data[k].place_fips, all_data[k].year) = q

(* C7: an item whose fetch ended in failure or in no-data leaves no placeholder: at
   the end of the run its key is neither in existing_keys nor among the keys the next
   run loads from the store, no record was stored for it, and the next run over the
   same places and years requests it again. *)
C7_FailedKeyIsRetriedNextRun ==
    /\ pc = "done" =>
          \A f \in Range(failed_records) :
              LET p == PlaceNamed(f[1])
              IN  /\ KeyOf(p.place_fips, f[2]) \notin existing_keys
                  /\ KeyOf(p.place_fips, f[2]) \notin LoadedKeys
                  /\ ~StoredInThisRun(ProviderKey(p.place_fips, f[2]))
    /\ (pc = "done" /\ prev.end = "done" /\ SameWorkSet) =>
          \A f \in Range(prev.failed) :
              ProviderKey(PlaceNamed(f[1]).place_fips, f[2]) \in Range(requests)

\* a run has ended that followed a run over the same work-set with failed items
C7_Witness ==
    /\ pc = "done"
    /\ prev.end = "done"
    /\ SameWorkSet
    /\ prev.failed # <<>>
    /\ failed_records # <<>>

(* C8: once a record was fetched in this run, the store holds the records loaded at
   the start followed by the records fetched so far, in order; between two work
   items the keys of the store are the keys in existing_keys (when the loaded records
   have distinct keys), and the store never holds fewer keys than were loaded. *)
C8_Checkpoint ==
    /\ (pc \in {"item", "ratelimit"} /\ Len(all_data) > Len(existing_data))
          => store = to_csv(all_data)
    /\ (pc = "item" /\ Cardinality(KeysOfRecords(existing_data)) = Len(existing_data))
          => LoadedKeys = existing_keys
    /\ InRun => KeysOfRecords(existing_data) \subseteq LoadedKeys

\* the work items in entity-major, period-minor order: places outer, years inner
WorkSeq ==
    [n \in 1..(Len(places) * Len(years)) |->
        <<((n - 1) \div Len(years)) + 1, ((n - 1) % Len(years)) + 1>>]

\* the work items whose key the run did not find in the store, as provider requests
ExpectedRequests ==
    LET missing(w) ==
            KeyOf(places[w[1]].place_fips, years[w[2]]) \notin KeysOfRecords(existing_data)
        todo == SelectSeq(WorkSeq, missing)
    IN  [n \in DOMAIN todo |-> ProviderKey(places[todo[n][1]].place_fips, years[todo[n][2]])]

IsPrefix(s, t) == Len(s) <= Len(t) /\ \A n \in DOMAIN s : s[n] = t[n]

(* C9: the requests of a run are issued place by place and, within a place, year by
   year, all the requests for one item before the first for the next; the sequence
   of requested keys is determined by the place list, the year list and the records
   loaded at the start. *)
C9_EntityMajorOrder ==
    /\ (InRun \/ pc = "done") => IsPrefix(requests, ExpectedRequests)
    /\ pc = "done" => requests = ExpectedRequests

\* a run over two places and two years has requested all four items, not all at the
\* first attempt
C9_Witness ==
    /\ pc = "done"
    /\ Len(places) = 2 /\ Len(years) = 2
    /\ Len(requests) = 4
    /\ store # <<>>
    /\ failed_records # <<>>

(* C10: a provider request is never issued right after another one: a sleep (back-off
   or rate limit) lies between any two requests, whatever the first was answered. *)
C10_SleepBetweenRequests == Requesting => lastEvent # "request"

----------------------------------------------------------------------------
(* C11: no answer to the request of a work item leaves the run as an exception: after
   an answer that is not a well-formed payload the call retries or returns None, the
   item is then the last of failed_records, and the run moves on to the next item. *)
C11_ItemErrorsAreFolded ==
    /\ (outcomes # <<>> /\ outcomes[Len(outcomes)] # "ok")
          => /\ pc \in {"request", "backoff", "ratelimit"}
             /\ pc = "ratelimit"
                   => /\ failed_records # <<>>
                      /\ failed_records[Len(failed_records)] = CurrentItem
    /\ (pc = "item" /\ failed_records # <<>>)
          => LET f == failed_records[Len(failed_records)]
                 at == CHOOSE w \in Range(WorkSeq) :
                           places[w[1]].name = f[1] /\ years[w[2]] = f[2]
             IN  << i, j >> # at

\* the run is at the second place after the items of the first one failed
C11_Witness ==
    /\ AtItem
    /\ i = 2
    /\ Len(failed_records) = Len(years)
    /\ ~AlreadyDone

\* the configuration a run was started with lacks places or years
PartialConfiguration ==
    /\ pc \notin {"idle", "interrupted"}
    /\ places = <<>> \/ years = <<>>

(* C12: a run given an empty place list or an empty year list ends with an error or
   a diagnostic before any provider request; it reaches neither a work item of the
   collection loop nor the final report, and the store is not rewritten. *)
C12_EmptyConfigurationAborts ==
    /\ [](PartialConfiguration
            => /\ pc \in {"raised_in_plan", "no_places", "item"}
               /\ ~AtItem
               /\ requests = <<>>)
    /\ [][PartialConfiguration' => store' = store]_vars

(* C14: a run that is interrupted still ends by printing the number of records and of
   failures and the completeness reached. *)
C14_InterruptedRunReports ==
    pc = "interrupted"
    => {"total_records", "completeness"} \subseteq DOMAIN report

(* C15: at the end of a complete run the completeness reported is the number of keys
   in existing_keys over |places| x |years|; with two places, two years and a provider
   that always answers with a well-formed payload it is 1 after the first run, from an
   empty store, and 1 after the second. *)
C15_Completeness ==
    /\ pc = "done"
          => report.completeness[1] * total_combinations
                 = Cardinality(existing_keys) * report.completeness[2]
    /\ ( /\ pc = "done" /\ allOk
         /\ Len(places) = 2 /\ Len(years) = 2
         /\ \/ existing_data = <<>>
            \/ prev.end = "done" /\ prev.loaded = 0 /\ prev.allOk /\ SameWorkSet )
          => report.completeness[1] = report.completeness[2]

(* C13: when the file of the incremental collector exists and cannot be loaded, the
   run ends with a fatal error: it does not go on to the cities as if the file were
   empty, and the file is left as it is. *)
C13_MalformedStoreIsFatal ==
    /\ [](Unloadable(store) => ~InIncrementalRun /\ pc # "done")
    /\ [][Unloadable(store) => store' = store]_vars

(* C16: the file of the incremental collector never holds two rows with the same
   (city, year), city and year being what load_existing_data derives from a row. *)
C16_NoDuplicateCityYear ==
    \A a, b \in DOMAIN store :
        Combination(store[a]) = Combination(store[b]) => a = b

(* C17: a record that a run saved after it had loaded a non-empty file is recognised
   when the file is loaded again: its (city, year), under the name of the target
   table, is in existing_combinations of every later run. *)
C17_SavedRecordsAreRecognised ==
    (InIncrementalRun \/ pc = "done") => savedLater \subseteq existing_combinations

(* C18: whenever the incremental collector is about to request an item, every record
   it has fetched before is in the file, so that an interruption loses at most the
   item in flight. *)
C18_FetchedRecordsAreSaved ==
    (pc = "year" /\ j <= Len(missing_years)) => unsaved = {}

\* the rows of all the files the expanded collector has written
OnDisk == UNION { Range(store[f]) : f \in DOMAIN store }

(* C19: whenever the expanded collector is about to fetch an item, every record it
   has fetched is in a file, and no item it has requested was in a file when the run
   started. *)
C19_ExpandedIsResumable ==
    (pc = "fetch" /\ i <= Len(places))
    => /\ Range(expanded_rows(all_data)) \subseteq OnDisk
       /\ \A q \in Range(requests) :
             \A r \in OnDisk : << r.place_fips, IntOfStr(r.year) >> # q

\* the values the collectors take for the provider's mark of suppressed data
Sentinels == {Sentinel666, Sentinel999}

\* the field is empty, missing or the sentinel
Suppressed(k) == k > Len(row) \/ row[k] \in {None, Str(<<>>)} \cup Sentinels

(* C20: a row all of whose fields are empty, missing, the sentinel or a count is read
   as a success, by either collector, and every field that is empty, missing or the
   sentinel is 0 in the record. *)
C20_SentinelIsZero ==
    ( /\ pc \in {"county", "incremental"}
      /\ \A k \in 1..NumFields : Suppressed(k) \/ IsNumeric(row[k].text) )
    => /\ result.status = "ok"
       /\ \A k \in 1..NumFields : Suppressed(k) => result.fields[k] = PyInt(0)

----------------------------------------------------------------------------
(* CountyBasedDataCollector.get_all_places_in_counties (collect_data.py) *)

\* the variables of collect_data_for_places other than pc
runVars == << store, runs, places, years, existing_data, existing_keys, all_data,
              completed, failed_records, i, j, attempt, data, outcomes, requests,
              lastEvent, allOk, ended, prev, report, callVars >>

\* the variables of IncrementalDataCollector and of the row readers
cityVars == << target_cities, existing_combinations, missing_years, city_data_added,
               unsaved, savedLater, start_time, row, result >>

placeFileVars == << df, counties, target_places, county_idx, place_idx >>

backfillVars == << output_file, coordinates_lookup, file_before >>

\* rows of the places file at most
MaxPlaceRows == 2
\* distinct PLACEFP values in the places file
NumPlaceFps == 2
\* configured counties at most
MaxCounties == 2

\* a county name is a sequence of words; "Smith County" is a substring of
\* "Deaf Smith County"
CountyNames == { << "Dallas" >>, << "Smith" >>, << "Deaf", "Smith" >> }

\* the COUNTIES field: the counties of a place, joined by ~~~
CountyFields == { f \in SeqsUpTo(CountyNames, 2) : Injective(f) }

PlaceNames == << "Celina", "Melissa", "Sherman" >>

PlaceRows ==
    { [PLACENAME |-> PlaceNames[((f - 1) % 3) + 1], PLACEFP |-> f, TYPE |-> t,
       COUNTIES |-> c] :
        f \in 1..NumPlaceFps,
        t \in { "INCORPORATED PLACE", "CENSUS DESIGNATED PLACE" },
        c \in CountyFields }

\* pd.read_csv(places_file, sep='|')
PlaceFiles == { <<>> } \cup SeqsUpTo(PlaceRows, MaxPlaceRows)

\* the keys of counties.json, which are distinct
CountyConfigs == { <<>> } \cup { c \in SeqsUpTo(CountyNames, MaxCounties) : Injective(c) }

\* name is the end of the word sequence c
IsSuffix(name, c) ==
    /\ Len(name) <= Len(c)
    /\ SubSeq(c, Len(c) - Len(name) + 1, Len(c)) = name

\* df['COUNTIES'].str.contains(county_name, na=False), county_name = f"{name} County":
\* "<name> County" occurs in the field where some county of the field ends with name
contains(field, name) == \E k \in DOMAIN field : IsSuffix(name, field[k])

\* county_places = df[df['COUNTIES'].str.contains(county_name, na=False)]
county_places(name) == SelectSeq(df, LAMBDA r : contains(r.COUNTIES, name))

\* the entry appended for a new place
new_place(place, primary_county) ==
    [name |-> place.PLACENAME, place_fips |-> place.PLACEFP,
     counties |-> << primary_county >>, all_counties |-> place.COUNTIES,
     type |-> place.TYPE]

\* Mutant of add_place: every row found under a county is appended.
add_place_NoMerge(tp, place, primary_county) == Append(tp, new_place(place, primary_county))

\* existing = next((p for p in target_places if p['place_fips'] == place_fips), None)
\* and the branch on it
add_place(tp, place, primary_county) ==
    IF \E k \in DOMAIN tp : tp[k].place_fips = place.PLACEFP
    THEN LET e == CHOOSE k \in DOMAIN tp :
                     /\ tp[k].place_fips = place.PLACEFP
                     /\ \A m \in DOMAIN tp : tp[m].place_fips = place.PLACEFP => k <= m
         IN  IF primary_county \in Range(tp[e].counties)
             THEN tp
             ELSE [tp EXCEPT ![e].counties = Append(@, primary_county)]
    ELSE Append(tp, new_place(place, primary_county))

InitPlaces ==
    /\ df \in PlaceFiles
    /\ counties \in CountyConfigs
    /\ target_places = <<>>
    /\ county_idx = 0
    /\ place_idx = 0
    /\ output_file = NoFile
    /\ coordinates_lookup = << >>
    /\ file_before = NoFile
    /\ store = <<>>
    /\ pc = "idle"
    /\ runs = 0
    /\ Fresh
    /\ ended = NoRun
    /\ prev = NoRun
    /\ report = NoReport
    /\ target_cities = <<>>
    /\ existing_combinations = {}
    /\ missing_years = <<>>
    /\ city_data_added = 0
    /\ unsaved = {}
    /\ savedLater = {}
    /\ start_time = "unset"
    /\ row = <<>>
    /\ result = [status |-> "none", fields |-> <<>>]

\* the call: target_places = []
GetAllPlaces ==
    /\ pc = "idle"
    /\ target_places' = <<>>
    /\ county_idx' = 1
    /\ place_idx' = 1
    /\ pc' = "filter"
    /\ UNCHANGED << df, counties, backfillVars, runVars, cityVars >>

\* one iteration of the loop over county_places
FilterPlace ==
    /\ pc = "filter"
    /\ county_idx <= Len(counties)
    /\ place_idx <= Len(county_places(counties[county_idx]))
    /\ LET place == county_places(counties[county_idx])[place_idx]
       IN  target_places' =
               IF place.TYPE = "CENSUS DESIGNATED PLACE"
               THEN target_places
               ELSE add_place(target_places, place, counties[county_idx])
    /\ place_idx' = place_idx + 1
    /\ UNCHANGED << pc, df, counties, county_idx, backfillVars, runVars, cityVars >>

\* the loop over county_places is exhausted: next county_name
NextCounty ==
    /\ pc = "filter"
    /\ county_idx <= Len(counties)
    /\ place_idx > Len(county_places(counties[county_idx]))
    /\ county_idx' = county_idx + 1
    /\ place_idx' = 1
    /\ UNCHANGED << pc, df, counties, target_places, backfillVars, runVars, cityVars >>

\* return target_places
ReturnPlaces ==
    /\ pc = "filter"
    /\ county_idx > Len(counties)
    /\ pc' = "places_returned"
    /\ UNCHANGED << placeFileVars, backfillVars, runVars, cityVars >>

NextPlaces ==
    \/ GetAllPlaces
    \/ FilterPlace
    \/ NextCounty
    \/ ReturnPlaces

SpecPlaces == InitPlaces /\ [][NextPlaces]_vars

----------------------------------------------------------------------------
(* CountyBasedDataCollector.backfill_missing_data (collect_data.py) *)

\* rows of the CSV file at most
MaxFileRows == 2

\* a cell that pandas reads as missing: an empty cell, or None in an object column
NA == "NaN"

\* required_columns
required_columns == { "latitude", "longitude", "coordinates", "distance_from_dallas" }

\* the columns collect_data_for_places writes besides the required ones
base_columns == { "place_fips", "year", "city", "total_population" }

\* self.dallas_coords and its text f"({lat}, {lon})"
dallas_coords == [latitude |-> "32.7767", longitude |-> "-96.797",
                  coordinates |-> "(32.7767, -96.797)"]

\* an entry of texas_place_coordinates.csv for a place that is not Dallas
arlington_coords == [latitude |-> "32.7357", longitude |-> "-97.1081",
                     coordinates |-> "(32.7357, -97.1081)"]

\* round(self.calculate_distance(self.dallas_coords, city_coords), 1)
calculate_distance(city_coords) ==
    IF city_coords.latitude = dallas_coords.latitude
          /\ city_coords.longitude = dallas_coords.longitude
    THEN "0.0" ELSE "17.9"

\* the coordinate cells of a record: none, those of a place found in the lookup, the
\* Dallas default, coordinates without a distance
CoordinateCells ==
    { [latitude |-> NA, longitude |-> NA, coordinates |-> NA, distance_from_dallas |-> NA],
      arlington_coords @@ [distance_from_dallas |-> "17.9"],
      dallas_coords @@ [distance_from_dallas |-> "0.0"],
      arlington_coords @@ [distance_from_dallas |-> NA] }

\* the column sets of the file: written before the coordinates were collected, with
\* all of them, or without the distance
ColumnSets ==
    { base_columns, base_columns \cup required_columns,
      base_columns \cup (required_columns \ { "distance_from_dallas" }) }

\* the rows of a file with the columns cols: the cells of an absent column are missing
FileRows(cols) ==
    { [place_fips |-> p.fips, year |-> FirstYear, city |-> p.city,
       total_population |-> 100] @@ c :
        p \in { [fips |-> <<0, 4, 0, 0, 0>>, city |-> "Arlington"],
                [fips |-> <<1, 9, 0, 0, 0>>, city |-> "Dallas"] },
        c \in { c \in CoordinateCells :
                  \A col \in required_columns \ cols : c[col] = NA } }

Files ==
    { NoFile } \cup
    UNION { { [exists |-> TRUE, columns |-> cols, rows |-> rs] :
                rs \in { <<>> } \cup SeqsUpTo(FileRows(cols), MaxFileRows) } :
            cols \in ColumnSets }

\* self.coordinates_lookup, keyed by int(place_fips)
Lookups ==
    { [f \in S |-> IF f = 19000 THEN dallas_coords ELSE arlington_coords] :
        S \in SUBSET { 4000, 19000 } }

\* df = pd.read_csv(output_file): the place_fips column is parsed as integers
read_file(f) ==
    [columns |-> f.columns,
     rows |-> [k \in DOMAIN f.rows |->
                  [f.rows[k] EXCEPT !.place_fips = PyInt(IntOfStr(@))]]]

\* df.to_csv(output_file, index=False)
write_file(d) ==
    [exists |-> TRUE, columns |-> d.columns,
     rows |-> [k \in DOMAIN d.rows |-> [d.rows[k] EXCEPT !.place_fips = py_str(@)]]]

\* for col in missing_columns: df[col] = 0.0, or None for 'coordinates'
add_columns(d, missing_columns) ==
    [columns |-> d.columns \cup missing_columns,
     rows |-> [k \in DOMAIN d.rows |->
                  [col \in DOMAIN d.rows[k] |->
                      IF col \notin missing_columns THEN d.rows[k][col]
                      ELSE IF col = "coordinates" THEN NA ELSE "0.0"]]]

\* Mutant of backfill_row: the record is rebuilt and its population is reset.
backfill_row_Rebuilt(r, lookup) ==
    [r EXCEPT !.total_population = 0, !.coordinates = dallas_coords.coordinates]

\* the body of the loop over df.iterrows()
backfill_row(r, lookup) ==
    LET place_fips_int == py_int(r.place_fips)
        needs_update == \/ r.coordinates = NA
                        \/ r.coordinates = ""
                        \/ r.distance_from_dallas = NA
                        \/ r.distance_from_dallas = "0.0"
    IN  IF needs_update /\ place_fips_int \in DOMAIN lookup
        THEN [r EXCEPT !.latitude = lookup[place_fips_int].latitude,
                       !.longitude = lookup[place_fips_int].longitude,
                       !.coordinates = lookup[place_fips_int].coordinates,
                       !.distance_from_dallas = calculate_distance(lookup[place_fips_int])]
        ELSE IF needs_update
        THEN [r EXCEPT !.latitude = dallas_coords.latitude,
                       !.longitude = dallas_coords.longitude,
                       !.coordinates = dallas_coords.coordinates,
                       !.distance_from_dallas = "0.0"]
        ELSE r

\* the file after backfill_missing_data(output_file)
backfill_missing_data(f, lookup) ==
    IF ~f.exists THEN f
    ELSE LET d == read_file(f)
             missing_columns == required_columns \ d.columns
         IN  IF missing_columns = {} /\ \A k \in DOMAIN d.rows : d.rows[k].coordinates # NA
             THEN f
             ELSE LET a == add_columns(d, missing_columns)
                  IN  write_file([columns |-> a.columns,
                                  rows |-> [k \in DOMAIN a.rows |->
                                               backfill_row(a.rows[k], lookup)]])

InitBackfill ==
    /\ output_file \in Files
    /\ coordinates_lookup \in Lookups
    /\ file_before = NoFile
    /\ df = <<>>
    /\ counties = <<>>
    /\ target_places = <<>>
    /\ county_idx = 0
    /\ place_idx = 0
    /\ store = <<>>
    /\ pc = "idle"
    /\ runs = 0
    /\ Fresh
    /\ ended = NoRun
    /\ prev = NoRun
    /\ report = NoReport
    /\ target_cities = <<>>
    /\ existing_combinations = {}
    /\ missing_years = <<>>
    /\ city_data_added = 0
    /\ unsaved = {}
    /\ savedLater = {}
    /\ start_time = "unset"
    /\ row = <<>>
    /\ result = [status |-> "none", fields |-> <<>>]

\* run_collection, step 1: self.backfill_missing_data()
Backfill ==
    /\ pc = "idle"
    /\ file_before' = output_file
    /\ output_file' = backfill_missing_data(output_file, coordinates_lookup)
    /\ pc' = "backfilled"
    /\ UNCHANGED << coordinates_lookup, placeFileVars, runVars, cityVars >>

NextBackfill == Backfill

SpecBackfill == InitBackfill /\ [][NextBackfill]_vars

(* C21: the back-off after the failed attempt n is 2^n, slept only when n is not the
   last attempt and followed by attempt n + 1; the timeout of attempt n is 30 + 10 n;
   with max_retries = 3 the back-offs of one call are at most 1, then 2. *)
C21_BackoffSchedule ==
    /\ \A k \in DOMAIN backoffs :
          /\ backoffs[k].attempt < max_retries - 1
          /\ backoffs[k].wait_time = 2 ^ backoffs[k].attempt
          /\ backoffs[k].wait_time \in {1, 2}
          /\ \A m \in DOMAIN backoffs : m < k => backoffs[m].wait_time < backoffs[k].wait_time
    /\ \A k \in DOMAIN timeouts :
          /\ timeouts[k].attempt = k - 1
          /\ timeouts[k].timeout = 30 + 10 * (k - 1)
    /\ Len(timeouts) <= max_retries
    /\ (pc = "request" /\ lastEvent = "sleep")
          => /\ backoffs # <<>>
             /\ attempt = backoffs[Len(backoffs)].attempt + 1
    /\ pc = "backoff" => outcomes[Len(outcomes)] = "transient" /\ attempt < max_retries - 1
    /\ (pc = "ratelimit" /\ Len(outcomes) = max_retries
            /\ outcomes[max_retries] = "transient")
          => \A k \in DOMAIN backoffs : backoffs[k].attempt # max_retries - 1

\* a call has failed three times: it slept 1, then 2, and not after the last attempt
C21_Witness ==
    /\ pc = "ratelimit"
    /\ outcomes = << "transient", "transient", "transient" >>
    /\ backoffs = << [attempt |-> 0, wait_time |-> 1], [attempt |-> 1, wait_time |-> 2] >>
    /\ Len(timeouts) = 3
    /\ timeouts[3].timeout = 50

\* position of the county c in the configuration
CountyPosition(c) == CHOOSE k \in DOMAIN counties : counties[k] = c

(* C22: in the list get_all_places_in_counties builds and returns, every place_fips
   appears at most once, no place is a CENSUS DESIGNATED PLACE, the 'counties' of an
   entry names each target county the place lies in exactly once, in the order the
   counties were processed, and so places x years has unique (place_fips, year)
   pairs. *)
C22_PlacesAreUnique ==
    /\ \A a, b \in DOMAIN target_places :
          target_places[a].place_fips = target_places[b].place_fips => a = b
    /\ \A a \in DOMAIN target_places :
          /\ target_places[a].type # "CENSUS DESIGNATED PLACE"
          /\ Injective(target_places[a].counties)
          /\ Range(target_places[a].counties) \subseteq Range(counties)
          /\ \A m, n \in DOMAIN target_places[a].counties :
                m < n => CountyPosition(target_places[a].counties[m])
                             < CountyPosition(target_places[a].counties[n])
    /\ pc = "places_returned" =>
          \A k \in DOMAIN df, c \in Range(counties) :
              (df[k].TYPE # "CENSUS DESIGNATED PLACE" /\ c \in Range(df[k].COUNTIES))
                  => \E a \in DOMAIN target_places :
                         /\ target_places[a].place_fips = df[k].PLACEFP
                         /\ c \in Range(target_places[a].counties)
    /\ Cardinality({ << target_places[a].place_fips, y >> :
                        a \in DOMAIN target_places, y \in YearUniverse })
          = Len(target_places) * Cardinality(YearUniverse)

\* a place of two target counties was merged into one entry, and a census designated
\* place of a target county was left out
C22_Witness ==
    /\ pc = "places_returned"
    /\ Len(counties) = 2
    /\ \E a \in DOMAIN target_places : Len(target_places[a].counties) = 2
    /\ \E k \in DOMAIN df :
          /\ df[k].TYPE = "CENSUS DESIGNATED PLACE"
          /\ \E c \in Range(counties) : c \in Range(df[k].COUNTIES)

\* the work items of the run, as pairs of indices into places and years
WorkItems == { << a, b >> : a \in DOMAIN places, b \in DOMAIN years }

\* the item's key was in the store when the run loaded it
Skipped(w) == KeyOf(places[w[1]].place_fips, years[w[2]]) \in KeysOfRecords(existing_data)

\* a record of the item was appended in this run, and the store holds it
Succeeded(w) ==
    \E k \in DOMAIN all_data :
        /\ k > Len(existing_data)
        /\ all_data[k].place_fips = places[w[1]].place_fips
        /\ all_data[k].year = years[w[2]]
        /\ k \in DOMAIN store
        /\ store[k] = to_csv(all_data)[k]

\* the item is listed in failed_records
Failed(w) == << places[w[1]].name, years[w[2]] >> \in Range(failed_records)

(* C23: at the end of a complete run every work item is exactly one of skipped,
   succeeded or failed, the three counts add up to |places| x |years|, and the store
   holds the records loaded at the start plus one for each item that succeeded. *)
C23_Accounting ==
    pc = "done" =>
        LET skipped == { w \in WorkItems : Skipped(w) }
            succeeded == { w \in WorkItems : Succeeded(w) }
            failed == { w \in WorkItems : Failed(w) }
        IN  /\ skipped \cup succeeded \cup failed = WorkItems
            /\ skipped \cap succeeded = {}
            /\ skipped \cap failed = {}
            /\ succeeded \cap failed = {}
            /\ Cardinality(skipped) + Cardinality(succeeded) + Cardinality(failed)
                  = total_combinations
            /\ Cardinality(succeeded) = Len(all_data) - Len(existing_data)
            /\ Cardinality(failed) = Len(failed_records)
            /\ Len(store) = Len(existing_data) + Cardinality(succeeded)

\* a complete run that skipped an item, stored another and failed on a third
C23_Witness ==
    /\ pc = "done"
    /\ \E w \in WorkItems : Skipped(w)
    /\ \E w \in WorkItems : Succeeded(w)
    /\ \E w \in WorkItems : Failed(w)

\* the requests of one call, and of the run for one key, are bounded
RequestsAreBounded ==
    /\ Len(outcomes) <= max_retries
    /\ Len(timeouts) <= max_retries

\* the item the loops arrive at was not requested earlier in the run
NoKeyRevisited == AtItem => ProviderKey(place_fips, year) \notin Range(requests)

(* C24: a run over a non-empty work-set whose place list has no duplicate place_fips
   issues at most max_retries requests for a key, never comes back to a key whose
   fetch has ended, and, unless the user interrupts it, reaches the final report. *)
C24_BoundedAndTerminates ==
    /\ []RequestsAreBounded
    /\ []NoKeyRevisited
    /\ (InRun /\ places # <<>> /\ years # <<>>) ~> (pc \in {"done", "interrupted"})

\* a complete run in which a fetch used all its attempts and another stored a record
C24_Witness ==
    /\ pc = "done"
    /\ report.run = "complete"
    /\ failed_records # <<>>
    /\ Len(all_data) > Len(existing_data)
    /\ Len(requests) >= 2

(* C24 as stated, for any year list: every run that starts issues at most max_retries
   requests for a key, never comes back to a key, and reaches the final report. *)
C24_EveryRunReachesReport ==
    /\ []RequestsAreBounded
    /\ []NoKeyRevisited
    /\ [](pc # "raised_in_plan")
    /\ InRun ~> (pc \in {"done", "raised_in_report", "interrupted"})

\* the collection plan: Remaining: {total_combinations - completed}, completed being
\* len(existing_data) when the plan is printed
Remaining == total_combinations - Len(existing_data)

(* C25: for any initial store content the 'Remaining' count of the collection plan is
   never negative, and the success rate and the completeness of the final report
   never exceed 100%: the record count of the report is at most |places| x |years|. *)
C25_ReportWithinBounds ==
    /\ InRun => Remaining >= 0
    /\ pc = "done" =>
          /\ report.success_rate[1] <= report.success_rate[2]
          /\ report.completeness[1] <= report.completeness[2]
          /\ report.total_records <= total_combinations

(* C26: every count of a record CountyBasedDataCollector.get_demographic_data returns
   is a non-negative integer, for a row whose fields are integer strings, empty
   values or one of the sentinel codes '-666666666' and '-999999999'. *)
C26_CountsAreNonNegative ==
    ( /\ pc = "county"
      /\ Len(row) = NumFields
      /\ \A k \in 1..NumFields :
            row[k] \in {None, Str(<<>>)} \cup Sentinels \/ IsNumeric(row[k].text) )
    => /\ result.status = "ok"
       /\ \A k \in 1..NumFields :
             /\ IsInt(result.fields[k])
             /\ result.fields[k].int >= 0

\* the columns of the file that collect_data_for_places loads, as rows of the store
demographics(f) ==
    [k \in DOMAIN f.rows |->
        [place_fips |-> f.rows[k].place_fips, year |-> f.rows[k].year,
         city |-> f.rows[k].city, total_population |-> f.rows[k].total_population]]

(* C27: backfill_missing_data changes only the latitude, longitude, coordinates and
   distance_from_dallas columns: the records the collection loads from the file
   afterwards are as many, in the same order, with the same place_fips, year and
   demographic values as it would have loaded before, and so are the keys it treats
   as already done. *)
C27_BackfillKeepsRecords ==
    pc = "backfilled" =>
        /\ output_file.exists = file_before.exists
        /\ Len(output_file.rows) = Len(file_before.rows)
        /\ read_csv(demographics(output_file)) = read_csv(demographics(file_before))
        /\ KeysOfRecords(read_csv(demographics(output_file)))
              = KeysOfRecords(read_csv(demographics(file_before)))
        /\ file_before.columns \subseteq output_file.columns
        /\ output_file.columns \ file_before.columns \subseteq required_columns

\* the backfill rewrote a file of two records: one got the coordinates of the lookup
\* and its place_fips was written without the leading zero, the other got the Dallas
\* default
C27_Witness ==
    /\ pc = "backfilled"
    /\ Len(output_file.rows) = 2
    /\ "distance_from_dallas" \notin file_before.columns
    /\ \E k \in DOMAIN output_file.rows :
          /\ file_before.rows[k].coordinates = NA
          /\ output_file.rows[k].coordinates = arlington_coords.coordinates
          /\ output_file.rows[k].place_fips # file_before.rows[k].place_fips
    /\ \E k \in DOMAIN output_file.rows :
          /\ file_before.rows[k].coordinates = NA
          /\ output_file.rows[k].coordinates = dallas_coords.coordinates
          /\ output_file.rows[k].distance_from_dallas = "0.0"

(* C28: collect_data_incrementally runs to completion on a collector created by the
   constructor alone: a run over two or more cities never ends with an error for an
   attribute that only main sets. *)
C28_ConstructorAloneSuffices ==
    (start_time = "unset" /\ runs > 0 /\ Len(target_cities) >= 2) => pc # "AttributeError"

====
